---- MODULE Spec2Model ----
(***************************************************************************)
(* Model of the meteofrance_api data model: the Rain and Snow wrappers of  *)
(* model/rain.py and model/snow.py.  A wrapper holds one raw document      *)
(* (a nested Python dict) and answers accessor and query calls on it.      *)
(*                                                                         *)
(* A Python dict is a TLA+ function with a domain of strings, a list is a  *)
(* sequence.  A call ends in one of three outcomes: Return(v), None, or    *)
(* Raise(exception, argument).                                             *)
(***************************************************************************)
EXTENDS Integers, Sequences, FiniteSets, TLC

VARIABLES
    cls,        \* the wrapper class being exercised: "Rain" or "Snow"
    arg,        \* the document handed to the constructor
    raw_data,   \* the wrapper's attribute self.raw_data
    pc,         \* "new" before __init__ has run, "ready" after
    call,       \* the last call made on the wrapper: [name, args]
    result      \* the outcome of that call

vars == <<cls, arg, raw_data, pc, call, result>>

----------------------------------------------------------------------------
(* Bounds of the model *)

MaxForecast == 3
MaxRisks == 3
MaxExpo == 2
MaxTotalRecords == 4
MaxFreshRecords == 3

----------------------------------------------------------------------------
(* Python values and outcomes *)

Return(v) == [kind |-> "return", value |-> v]
None == [kind |-> "None"]
Raise(exc, a) == [kind |-> "raise", exc |-> exc, arg |-> a]

Failed(r) == r.kind = "raise"

\* The attribute self.raw_data before __init__ has assigned it.
Unset == [py |-> "unset"]

\* A document that is not a dict at all (Python's None handed to the constructor).
NoneDoc == [py |-> "None"]

\* d[k] on a dict: the value, or KeyError(k).  Subscripting None is a TypeError.
GetItem(d, k) ==
    IF d = NoneDoc THEN Raise("TypeError", k)
    ELSE IF k \in DOMAIN d THEN Return(d[k])
    ELSE Raise("KeyError", k)

\* d[k1][k2]...[kn], evaluated left to right; the first failure propagates.
RECURSIVE GetPath(_, _)
GetPath(d, path) ==
    IF path = <<>> THEN Return(d)
    ELSE LET r == GetItem(d, Head(path))
         IN  IF Failed(r) THEN r ELSE GetPath(r.value, Tail(path))

\* m[k] = v on a dict m
DictSet(m, k, v) == [x \in DOMAIN m \cup {k} |-> IF x = k THEN v ELSE m[x]]

EmptyDict == [x \in {} |-> 0]

\* the dict d without key k
Without(d, k) == [x \in DOMAIN d \ {k} |-> d[x]]

SeqsUpTo(S, n) == UNION {[1..k -> S] : k \in 0..n}

----------------------------------------------------------------------------
(* helpers.timestamp_to_dateime_with_locale_tz: the time localizer *)

KnownTimezones == {"Europe/Paris", "UTC"}

\* Offset from UTC, in seconds, of zone tz at instant ts.  Europe/Paris is
\* UTC+1, and UTC+2 between the last Sundays of March and October, 01:00 UTC
\* (2023-03-26 and 2023-10-29; the model's instants all lie in 2023).
UTCOffset(tz, ts) ==
    IF tz = "UTC" THEN 0
    ELSE IF ts >= 1679792400 /\ ts < 1698541200 THEN 7200
    ELSE 3600

\* The civil date of day number z (days since 1970-01-01), proleptic Gregorian.
CivilFromDays(z0) ==
    LET z   == z0 + 719468
        era == z \div 146097
        doe == z - era * 146097
        yoe == (doe - doe \div 1460 + doe \div 36524 - doe \div 146096) \div 365
        doy == doe - (365 * yoe + yoe \div 4 - yoe \div 100)
        mp  == (5 * doy + 2) \div 153
        d   == doy - (153 * mp + 2) \div 5 + 1
        m   == IF mp < 10 THEN mp + 3 ELSE mp - 9
        y   == yoe + era * 400 + (IF m <= 2 THEN 1 ELSE 0)
    IN  [year |-> y, month |-> m, day |-> d]

\* The timezone-aware datetime of instant ts in zone tz: the wall clock of
\* the zone at that instant, with the offset it was computed with.
LocalDateTime(ts, tz) ==
    LET off  == UTCOffset(tz, ts)
        wall == ts + off
        date == CivilFromDays(wall \div 86400)
        sod  == wall % 86400
    IN  [year |-> date.year, month |-> date.month, day |-> date.day,
         hour |-> sod \div 3600, minute |-> (sod % 3600) \div 60,
         second |-> sod % 60, utcoffset |-> off, tzinfo |-> tz]

timestamp_to_dateime_with_locale_tz(timestamp, local_tz) ==
    IF local_tz \notin KnownTimezones
    THEN Raise("UnknownTimeZoneError", local_tz)
    ELSE Return(LocalDateTime(timestamp, local_tz))

----------------------------------------------------------------------------
(* class Rain *)

Rain_geometry(self) == GetPath(self, <<"geometry">>)

Rain_altitude(self) == GetPath(self, <<"properties", "altitude">>)

Rain_location_name(self) == GetPath(self, <<"properties", "name">>)

Rain_country(self) == GetPath(self, <<"properties", "country">>)

Rain_french_department(self) == GetPath(self, <<"properties", "french_department">>)

Rain_rain_product_available(self) ==
    GetPath(self, <<"properties", "rain_product_available">>)

Rain_timezone(self) == GetPath(self, <<"properties", "timezone">>)

Rain_confidence(self) == GetPath(self, <<"properties", "confidence">>)

Rain_forecasts(self) == GetPath(self, <<"properties", "forecast">>)

\* The argument self.timezone is evaluated first, then the helper is called.
Rain_timestamp_to_locale_time(self, timestamp) ==
    LET tz == Rain_timezone(self)
    IN  IF Failed(tz) THEN tz
        ELSE timestamp_to_dateime_with_locale_tz(timestamp, tz.value)

\* self.raw_data["update_time"] is read before self.timezone.
Rain_update_time(self) ==
    LET t == GetItem(self, "update_time")
    IN  IF Failed(t) THEN t ELSE Rain_timestamp_to_locale_time(self, t.value)

\* The body of the loop of next_rain_date_locale from the i-th forecast on.
\* int(forecast["time"]) is the time itself: the documents hold integers.
RECURSIVE Rain_next_rain_scan(_, _, _)
Rain_next_rain_scan(self, fc, i) ==
    IF i > Len(fc) THEN None
    ELSE LET forecast == fc[i]
             t  == GetItem(forecast, "time")
             forecast_time == Rain_timestamp_to_locale_time(self, t.value)
             ri == GetItem(forecast, "rain_intensity")
         IN  IF Failed(t) THEN t
             ELSE IF Failed(forecast_time) THEN forecast_time
             ELSE IF Failed(ri) THEN ri
             ELSE IF ri.value > 1 THEN forecast_time
             ELSE Rain_next_rain_scan(self, fc, i + 1)

\* Variant: the loop takes an intensity of 2 for dry as well (> 2).
RECURSIVE Rain_next_rain_scan_above2(_, _, _)
Rain_next_rain_scan_above2(self, fc, i) ==
    IF i > Len(fc) THEN None
    ELSE LET forecast == fc[i]
             t  == GetItem(forecast, "time")
             forecast_time == Rain_timestamp_to_locale_time(self, t.value)
             ri == GetItem(forecast, "rain_intensity")
         IN  IF Failed(t) THEN t
             ELSE IF Failed(forecast_time) THEN forecast_time
             ELSE IF Failed(ri) THEN ri
             ELSE IF ri.value > 2 THEN forecast_time
             ELSE Rain_next_rain_scan_above2(self, fc, i + 1)

Rain_next_rain_date_locale_above2(self) ==
    LET fc == Rain_forecasts(self)
    IN  IF Failed(fc) THEN fc ELSE Rain_next_rain_scan_above2(self, fc.value, 1)

\* Variant: the loop takes the dry sentinel 1 for rain (>= 1).
RECURSIVE Rain_next_rain_scan_from1(_, _, _)
Rain_next_rain_scan_from1(self, fc, i) ==
    IF i > Len(fc) THEN None
    ELSE LET forecast == fc[i]
             t  == GetItem(forecast, "time")
             forecast_time == Rain_timestamp_to_locale_time(self, t.value)
             ri == GetItem(forecast, "rain_intensity")
         IN  IF Failed(t) THEN t
             ELSE IF Failed(forecast_time) THEN forecast_time
             ELSE IF Failed(ri) THEN ri
             ELSE IF ri.value >= 1 THEN forecast_time
             ELSE Rain_next_rain_scan_from1(self, fc, i + 1)

Rain_next_rain_date_locale_from1(self) ==
    LET fc == Rain_forecasts(self)
    IN  IF Failed(fc) THEN fc ELSE Rain_next_rain_scan_from1(self, fc.value, 1)

\* Variant: the intensity is tested first and only a rainy entry's time is
\* localized.
RECURSIVE Rain_next_rain_scan_lazy(_, _, _)
Rain_next_rain_scan_lazy(self, fc, i) ==
    IF i > Len(fc) THEN None
    ELSE LET forecast == fc[i]
             ri == GetItem(forecast, "rain_intensity")
             t  == GetItem(forecast, "time")
             forecast_time == Rain_timestamp_to_locale_time(self, t.value)
         IN  IF Failed(ri) THEN ri
             ELSE IF ri.value > 1
                  THEN IF Failed(t) THEN t ELSE forecast_time
             ELSE Rain_next_rain_scan_lazy(self, fc, i + 1)

Rain_next_rain_date_locale_lazy(self) ==
    LET fc == Rain_forecasts(self)
    IN  IF Failed(fc) THEN fc ELSE Rain_next_rain_scan_lazy(self, fc.value, 1)

Rain_next_rain_date_locale(self) ==
    LET fc == Rain_forecasts(self)
    IN  IF Failed(fc) THEN fc ELSE Rain_next_rain_scan(self, fc.value, 1)

----------------------------------------------------------------------------
(* Rain documents *)

Timezones == KnownTimezones \cup {"Mars/Olympus"}

\* 2023-07-01 12:40:00 UTC (summer time in Paris), and 2023-12-14 15:35:00 UTC
Times == {1688215200, 1702568100}

Intensities == {1, 2, 3}

Description(ri) ==
    IF ri = 1 THEN "Temps sec" ELSE IF ri = 2 THEN "Pluie faible"
    ELSE "Pluie moderee"

ForecastData(t, ri) ==
    [time |-> t, rain_intensity |-> ri,
     rain_intensity_description |-> Description(ri)]

ForecastEntries == {ForecastData(t, ri) : t \in Times, ri \in Intensities}

RainData(tz, fc) ==
    [update_time |-> 1702567200,
     type |-> "Feature",
     geometry |-> [type |-> "Point", coordinates |-> <<2239895, 48807166>>],
     properties |->
        [altitude |-> 76, name |-> "Meudon", country |-> "FR - France",
         french_department |-> "92", rain_product_available |-> 1,
         timezone |-> tz, confidence |-> 0, forecast |-> fc]]

\* The documents of tests/test_rain.py
TestTimes ==
    <<1702568100, 1702568400, 1702568700, 1702569000, 1702569300,
      1702569600, 1702570200, 1702570800, 1702571400>>

TestRainExpected ==
    RainData("Europe/Paris",
        [i \in 1..9 |-> ForecastData(TestTimes[i], <<1, 1, 1, 1, 2, 3, 2, 1, 1>>[i])])

TestNoRainExpected ==
    RainData("Europe/Paris", [i \in 1..9 |-> ForecastData(TestTimes[i], 1)])

\* Well-formed documents: any timezone, any forecasts in any order.
FullRainDoc(d) ==
    \E tz \in Timezones, fc \in SeqsUpTo(ForecastEntries, MaxForecast) :
        d = RainData(tz, fc)

WithoutProperty(d, k) == [d EXCEPT !.properties = Without(d.properties, k)]

WithoutForecastKey(d, i, k) ==
    [d EXCEPT !.properties.forecast[i] = Without(d.properties.forecast[i], k)]

\* Documents lacking one key, at the top, in the properties or in a forecast.
RainBases ==
    {RainData(tz, fc) :
        tz \in {"Europe/Paris", "Mars/Olympus"},
        fc \in {<<>>,
                <<ForecastData(1702568100, 1)>>,
                <<ForecastData(1702568100, 1), ForecastData(1702569300, 2)>>,
                <<ForecastData(1702568100, 2), ForecastData(1702569300, 1)>>}}

MalformedRainDocs ==
    {Without(d, k) : d \in RainBases, k \in {"update_time", "geometry", "properties"}}
    \cup {WithoutProperty(d, k) : d \in RainBases, k \in DOMAIN RainData("UTC", <<>>).properties}
    \cup UNION {{WithoutForecastKey(d, i, k) :
                    i \in 1..Len(d.properties.forecast),
                    k \in {"time", "rain_intensity"}} : d \in RainBases}
    \cup {NoneDoc}

RainDoc(d) ==
    \/ FullRainDoc(d)
    \/ d \in MalformedRainDocs
    \/ d \in {TestRainExpected, TestNoRainExpected}

----------------------------------------------------------------------------
(* class Snow *)

Snow_get_massif_name(self) == GetPath(self, <<"properties", "massif_name">>)

Snow_get_max_avalanche_risk(self) ==
    GetPath(self, <<"properties", "massif_avalanche_risk", "avalanche_risk_max">>)

\* The inner loop of get_snow_depth_at_altitude, from the j-th record on:
\* Return(value) at the first record of that altitude, None when there is none.
RECURSIVE Snow_depth_scan(_, _, _)
Snow_depth_scan(depths, j, alt) ==
    IF j > Len(depths) THEN None
    ELSE LET depth == depths[j]
             a == GetItem(depth, "altitude")
         IN  IF Failed(a) THEN a
             ELSE IF a.value = alt THEN GetItem(depth, "value")
             ELSE Snow_depth_scan(depths, j + 1, alt)

\* The outer loop, from the i-th exposition on.
RECURSIVE Snow_exposition_scan(_, _, _)
Snow_exposition_scan(expositions, i, alt) ==
    IF i > Len(expositions) THEN None
    ELSE LET snow_depth_info == expositions[i]
             depths == GetItem(snow_depth_info, "total_snow_depth")
             found  == Snow_depth_scan(depths.value, 1, alt)
         IN  IF Failed(depths) THEN depths
             ELSE IF found.kind # "None" THEN found
             ELSE Snow_exposition_scan(expositions, i + 1, alt)

\* Variant: the loops run to the end and keep the last record of that altitude.
RECURSIVE Snow_depth_scan_last(_, _, _)
Snow_depth_scan_last(depths, j, alt) ==
    IF j < 1 THEN None
    ELSE LET depth == depths[j]
             a == GetItem(depth, "altitude")
         IN  IF Failed(a) THEN a
             ELSE IF a.value = alt THEN GetItem(depth, "value")
             ELSE Snow_depth_scan_last(depths, j - 1, alt)

RECURSIVE Snow_exposition_scan_last(_, _, _)
Snow_exposition_scan_last(expositions, i, alt) ==
    IF i < 1 THEN None
    ELSE LET snow_depth_info == expositions[i]
             depths == GetItem(snow_depth_info, "total_snow_depth")
             found  == Snow_depth_scan_last(depths.value, Len(depths.value), alt)
         IN  IF Failed(depths) THEN depths
             ELSE IF found.kind # "None" THEN found
             ELSE Snow_exposition_scan_last(expositions, i - 1, alt)

Snow_get_snow_depth_at_altitude_last(self, alt) ==
    LET total == GetPath(self, <<"properties", "total_snow_per_exposition">>)
    IN  IF Failed(total) THEN total
        ELSE Snow_exposition_scan_last(total.value, Len(total.value), alt)

Snow_get_snow_depth_at_altitude(self, alt) ==
    LET total == GetPath(self, <<"properties", "total_snow_per_exposition">>)
    IN  IF Failed(total) THEN total
        ELSE Snow_exposition_scan(total.value, 1, alt)

\* sorted(s) of a set of integers: a new list, ascending.
RECURSIVE sorted(_)
sorted(s) ==
    IF s = {} THEN <<>>
    ELSE LET least == CHOOSE x \in s : \A y \in s : x <= y
         IN  <<least>> \o sorted(s \ {least})

\* altitudes.add(depth_info["altitude"]) for the records from the j-th on
RECURSIVE Snow_add_altitudes(_, _, _)
Snow_add_altitudes(depths, j, altitudes) ==
    IF j > Len(depths) THEN Return(altitudes)
    ELSE LET a == GetItem(depths[j], "altitude")
         IN  IF Failed(a) THEN a
             ELSE Snow_add_altitudes(depths, j + 1, altitudes \cup {a.value})

RECURSIVE Snow_collect_altitudes(_, _, _)
Snow_collect_altitudes(expositions, i, altitudes) ==
    IF i > Len(expositions) THEN Return(altitudes)
    ELSE LET depths == GetItem(expositions[i], "total_snow_depth")
             added  == Snow_add_altitudes(depths.value, 1, altitudes)
         IN  IF Failed(depths) THEN depths
             ELSE IF Failed(added) THEN added
             ELSE Snow_collect_altitudes(expositions, i + 1, added.value)

\* Variant: sorted(altitudes, reverse=True)
Snow_get_available_altitudes_descending(self) ==
    LET total == GetPath(self, <<"properties", "total_snow_per_exposition">>)
        altitudes == Snow_collect_altitudes(total.value, 1, {})
        up == sorted(altitudes.value)
    IN  IF Failed(total) THEN total
        ELSE IF Failed(altitudes) THEN altitudes
        ELSE Return([i \in 1..Len(up) |-> up[Len(up) + 1 - i]])

Snow_get_available_altitudes(self) ==
    LET total == GetPath(self, <<"properties", "total_snow_per_exposition">>)
        altitudes == Snow_collect_altitudes(total.value, 1, {})
    IN  IF Failed(total) THEN total
        ELSE IF Failed(altitudes) THEN altitudes
        ELSE Return(sorted(altitudes.value))

\* The loop of get_avalanche_risk_by_location_value from the i-th risk on.
RECURSIVE Snow_risk_scan(_, _, _)
Snow_risk_scan(risks, i, location_value) ==
    IF i > Len(risks) THEN None
    ELSE LET risk == risks[i]
             v == GetPath(risk, <<"location", "value">>)
         IN  IF Failed(v) THEN v
             ELSE IF v.value = location_value THEN GetItem(risk, "avalanche_risk")
             ELSE Snow_risk_scan(risks, i + 1, location_value)

\* Variant: the loop runs to the end and keeps the last matching risk.
RECURSIVE Snow_risk_scan_last(_, _, _)
Snow_risk_scan_last(risks, i, location_value) ==
    IF i < 1 THEN None
    ELSE LET risk == risks[i]
             v == GetPath(risk, <<"location", "value">>)
         IN  IF Failed(v) THEN v
             ELSE IF v.value = location_value THEN GetItem(risk, "avalanche_risk")
             ELSE Snow_risk_scan_last(risks, i - 1, location_value)

Snow_get_avalanche_risk_by_location_value_last(self, location_value) ==
    LET risks == GetPath(self, <<"properties", "massif_avalanche_risk",
                                 "avalanche_risk_per_location">>)
    IN  IF Failed(risks) THEN risks
        ELSE Snow_risk_scan_last(risks.value, Len(risks.value), location_value)

Snow_get_avalanche_risk_by_location_value(self, location_value) ==
    LET risks == GetPath(self, <<"properties", "massif_avalanche_risk",
                                 "avalanche_risk_per_location">>)
    IN  IF Failed(risks) THEN risks
        ELSE Snow_risk_scan(risks.value, 1, location_value)

\* snow_depth_list.append({...}) for the records of one exposition, from the
\* j-th on; the dict literal reads "altitude", then "value".
RECURSIVE Snow_append_depths(_, _, _, _)
Snow_append_depths(exposition, depths, j, snow_depth_list) ==
    IF j > Len(depths) THEN Return(snow_depth_list)
    ELSE LET depth_data == depths[j]
             a == GetItem(depth_data, "altitude")
             v == GetItem(depth_data, "value")
         IN  IF Failed(a) THEN a
             ELSE IF Failed(v) THEN v
             ELSE Snow_append_depths(exposition, depths, j + 1,
                      Append(snow_depth_list,
                             [exposition |-> exposition, altitude |-> a.value,
                              total_snow_depth |-> v.value]))

RECURSIVE Snow_snow_depths_loop(_, _, _)
Snow_snow_depths_loop(expositions, i, snow_depth_list) ==
    IF i > Len(expositions) THEN Return(snow_depth_list)
    ELSE LET exposition_data == expositions[i]
             exposition == GetItem(exposition_data, "exposition")
             depths == GetItem(exposition_data, "total_snow_depth")
             appended == Snow_append_depths(exposition.value, depths.value, 1,
                                            snow_depth_list)
         IN  IF Failed(exposition) THEN exposition
             ELSE IF Failed(depths) THEN depths
             ELSE IF Failed(appended) THEN appended
             ELSE Snow_snow_depths_loop(expositions, i + 1, appended.value)

Snow_get_snow_depths(self) ==
    LET total == GetPath(self, <<"properties", "total_snow_per_exposition">>)
    IN  IF Failed(total) THEN total
        ELSE Snow_snow_depths_loop(total.value, 1, <<>>)

\* The loop of get_snow_limits from the i-th exposition on.
RECURSIVE Snow_snow_limits_loop(_, _, _)
Snow_snow_limits_loop(expositions, i, snow_limits) ==
    IF i > Len(expositions) THEN Return(snow_limits)
    ELSE LET exposition_data == expositions[i]
             exposition == GetItem(exposition_data, "exposition")
             snow_limit == GetItem(exposition_data, "snow_limit")
         IN  IF Failed(exposition) THEN exposition
             ELSE IF Failed(snow_limit) THEN snow_limit
             ELSE Snow_snow_limits_loop(expositions, i + 1,
                      DictSet(snow_limits, exposition.value, snow_limit.value))

\* Variant: an exposition already in the map keeps its first snow limit.
RECURSIVE Snow_snow_limits_loop_keep_first(_, _, _)
Snow_snow_limits_loop_keep_first(expositions, i, snow_limits) ==
    IF i > Len(expositions) THEN Return(snow_limits)
    ELSE LET exposition_data == expositions[i]
             exposition == GetItem(exposition_data, "exposition")
             snow_limit == GetItem(exposition_data, "snow_limit")
         IN  IF Failed(exposition) THEN exposition
             ELSE IF Failed(snow_limit) THEN snow_limit
             ELSE Snow_snow_limits_loop_keep_first(expositions, i + 1,
                      IF exposition.value \in DOMAIN snow_limits THEN snow_limits
                      ELSE DictSet(snow_limits, exposition.value, snow_limit.value))

Snow_get_snow_limits_keep_first(self) ==
    LET total == GetPath(self, <<"properties", "total_snow_per_exposition">>)
    IN  IF Failed(total) THEN total
        ELSE Snow_snow_limits_loop_keep_first(total.value, 1, EmptyDict)

Snow_get_snow_limits(self) ==
    LET total == GetPath(self, <<"properties", "total_snow_per_exposition">>)
    IN  IF Failed(total) THEN total
        ELSE Snow_snow_limits_loop(total.value, 1, EmptyDict)

\* The loop of get_avalanche_risks from the i-th risk on.
RECURSIVE Snow_risks_loop(_, _, _)
Snow_risks_loop(risks, i, risks_map) ==
    IF i > Len(risks) THEN Return(risks_map)
    ELSE LET risk == risks[i]
             location_value == GetPath(risk, <<"location", "value">>)
             r == GetItem(risk, "avalanche_risk")
         IN  IF Failed(location_value) THEN location_value
             ELSE IF Failed(r) THEN r
             ELSE Snow_risks_loop(risks, i + 1,
                      DictSet(risks_map, location_value.value, r.value))

\* Variant: the map is keyed by location["location_type"].
RECURSIVE Snow_risks_loop_by_type(_, _, _)
Snow_risks_loop_by_type(risks, i, risks_map) ==
    IF i > Len(risks) THEN Return(risks_map)
    ELSE LET risk == risks[i]
             location_value == GetPath(risk, <<"location", "location_type">>)
             r == GetItem(risk, "avalanche_risk")
         IN  IF Failed(location_value) THEN location_value
             ELSE IF Failed(r) THEN r
             ELSE Snow_risks_loop_by_type(risks, i + 1,
                      DictSet(risks_map, location_value.value, r.value))

Snow_get_avalanche_risks_by_type(self) ==
    LET risks == GetPath(self, <<"properties", "massif_avalanche_risk",
                                 "avalanche_risk_per_location">>)
    IN  IF Failed(risks) THEN risks
        ELSE Snow_risks_loop_by_type(risks.value, 1, EmptyDict)

\* Variant: a location value already in the map is not overwritten.
RECURSIVE Snow_risks_loop_keep_first(_, _, _)
Snow_risks_loop_keep_first(risks, i, risks_map) ==
    IF i > Len(risks) THEN Return(risks_map)
    ELSE LET risk == risks[i]
             location_value == GetPath(risk, <<"location", "value">>)
             r == GetItem(risk, "avalanche_risk")
         IN  IF Failed(location_value) THEN location_value
             ELSE IF Failed(r) THEN r
             ELSE Snow_risks_loop_keep_first(risks, i + 1,
                      IF location_value.value \in DOMAIN risks_map THEN risks_map
                      ELSE DictSet(risks_map, location_value.value, r.value))

Snow_get_avalanche_risks_keep_first(self) ==
    LET risks == GetPath(self, <<"properties", "massif_avalanche_risk",
                                 "avalanche_risk_per_location">>)
    IN  IF Failed(risks) THEN risks
        ELSE Snow_risks_loop_keep_first(risks.value, 1, EmptyDict)

Snow_get_avalanche_risks(self) ==
    LET risks == GetPath(self, <<"properties", "massif_avalanche_risk",
                                 "avalanche_risk_per_location">>)
    IN  IF Failed(risks) THEN risks
        ELSE Snow_risks_loop(risks.value, 1, EmptyDict)

\* The inner loop of get_fresh_snow over one exposition's records, from the
\* j-th on: fresh_snow_map[date][(altitude, exposition)] = value, with
\* fresh_snow_map[date] = {} first when the date is new.
RECURSIVE Snow_fresh_depths_loop(_, _, _, _)
Snow_fresh_depths_loop(exposition, depths, j, fresh_snow_map) ==
    IF j > Len(depths) THEN Return(fresh_snow_map)
    ELSE LET snow_depth == depths[j]
             date == GetItem(snow_depth, "date")
             a == GetItem(snow_depth, "altitude")
             value == GetItem(snow_depth, "value")
             with_date ==
                 IF date.value \notin DOMAIN fresh_snow_map
                 THEN DictSet(fresh_snow_map, date.value, EmptyDict)
                 ELSE fresh_snow_map
         IN  IF Failed(date) THEN date
             ELSE IF Failed(a) THEN a
             ELSE IF Failed(value) THEN value
             ELSE Snow_fresh_depths_loop(exposition, depths, j + 1,
                      DictSet(with_date, date.value,
                              DictSet(with_date[date.value],
                                      <<a.value, exposition>>, value.value)))

RECURSIVE Snow_fresh_snow_loop(_, _, _)
Snow_fresh_snow_loop(fresh_snow_data, i, fresh_snow_map) ==
    IF i > Len(fresh_snow_data) THEN Return(fresh_snow_map)
    ELSE LET exposition_data == fresh_snow_data[i]
             exposition == GetItem(exposition_data, "exposition")
             depths == GetItem(exposition_data, "fresh_snow_depth")
             filled == Snow_fresh_depths_loop(exposition.value, depths.value, 1,
                                              fresh_snow_map)
         IN  IF Failed(exposition) THEN exposition
             ELSE IF Failed(depths) THEN depths
             ELSE IF Failed(filled) THEN filled
             ELSE Snow_fresh_snow_loop(fresh_snow_data, i + 1, filled.value)

\* Variant: the inner map is keyed by the altitude alone.
RECURSIVE Snow_fresh_depths_loop_by_altitude(_, _, _, _)
Snow_fresh_depths_loop_by_altitude(exposition, depths, j, fresh_snow_map) ==
    IF j > Len(depths) THEN Return(fresh_snow_map)
    ELSE LET snow_depth == depths[j]
             date == GetItem(snow_depth, "date")
             a == GetItem(snow_depth, "altitude")
             value == GetItem(snow_depth, "value")
             with_date ==
                 IF date.value \notin DOMAIN fresh_snow_map
                 THEN DictSet(fresh_snow_map, date.value, EmptyDict)
                 ELSE fresh_snow_map
         IN  IF Failed(date) THEN date
             ELSE IF Failed(a) THEN a
             ELSE IF Failed(value) THEN value
             ELSE Snow_fresh_depths_loop_by_altitude(exposition, depths, j + 1,
                      DictSet(with_date, date.value,
                              DictSet(with_date[date.value],
                                      <<a.value, "">>, value.value)))

RECURSIVE Snow_fresh_snow_loop_by_altitude(_, _, _)
Snow_fresh_snow_loop_by_altitude(fresh_snow_data, i, fresh_snow_map) ==
    IF i > Len(fresh_snow_data) THEN Return(fresh_snow_map)
    ELSE LET exposition_data == fresh_snow_data[i]
             exposition == GetItem(exposition_data, "exposition")
             depths == GetItem(exposition_data, "fresh_snow_depth")
             filled == Snow_fresh_depths_loop_by_altitude(exposition.value,
                            depths.value, 1, fresh_snow_map)
         IN  IF Failed(exposition) THEN exposition
             ELSE IF Failed(depths) THEN depths
             ELSE IF Failed(filled) THEN filled
             ELSE Snow_fresh_snow_loop_by_altitude(fresh_snow_data, i + 1, filled.value)

Snow_get_fresh_snow_by_altitude(self) ==
    LET fresh_snow_data == GetPath(self, <<"properties", "fresh_snow_per_exposition">>)
    IN  IF Failed(fresh_snow_data) THEN fresh_snow_data
        ELSE Snow_fresh_snow_loop_by_altitude(fresh_snow_data.value, 1, EmptyDict)

Snow_get_fresh_snow(self) ==
    LET fresh_snow_data == GetPath(self, <<"properties", "fresh_snow_per_exposition">>)
    IN  IF Failed(fresh_snow_data) THEN fresh_snow_data
        ELSE Snow_fresh_snow_loop(fresh_snow_data.value, 1, EmptyDict)

----------------------------------------------------------------------------
(* Snow documents *)

LocationValues == {"<2200", ">2200"}

RiskLevels == {1, 2, 3}

Altitudes == {1500, 2000, 2500}

SnowLimits == {1800, 2200}

Expositions == {"N", "S"}

\* The name of the i-th exposition of a document whose expositions all differ.
ExpoName(i) == "E" \o ToString(i)

AvalancheRiskPerLocation(risk, value) ==
    [avalanche_risk |-> risk, risk_evolution |-> "stable",
     location |-> [location_type |-> "alti", value |-> value]]

SnowDepth(alt, date, value) == [altitude |-> alt, date |-> date, value |-> value]

FreshSnowPerExposition(exposition, depths) ==
    [time |-> "2024-01-10T06:00:00Z", exposition |-> exposition,
     fresh_snow_depth |-> depths]

TotalSnowPerExposition(exposition, snow_limit, depths) ==
    [time |-> "2024-01-10T06:00:00Z", exposition |-> exposition,
     snow_limit |-> snow_limit, total_snow_depth |-> depths]

SnowData(risks, fresh, total) ==
    [type |-> "Feature",
     update_time |-> "2024-01-10T15:00:00Z",
     properties |->
        [massif_name |-> "Mont-Blanc", massif_altitude_min |-> 1000,
         massif_altitude_max |-> 4800,
         massif_avalanche_risk |->
            [description |-> "risque marque", avalanche_risk_max |-> 3,
             time |-> "2024-01-10T15:00:00Z", dangerous_exposition |-> <<"N", "NE">>,
             avalanche_risk_per_location |-> risks],
         fresh_snow_per_exposition |-> fresh,
         avalanche_report |-> "report",
         total_snow_per_exposition |-> total]]

DefaultRisks ==
    <<AvalancheRiskPerLocation(2, "<2200"), AvalancheRiskPerLocation(3, ">2200")>>

DefaultFresh ==
    <<FreshSnowPerExposition("N", <<SnowDepth(1500, "2024-01-10", 5)>>)>>

DefaultTotal ==
    <<TotalSnowPerExposition("N", 1800, <<SnowDepth(1500, "2024-01-10", 40)>>)>>

\* Documents that differ in their avalanche risks: any risk level at any
\* location value, repeated or not.
SnowDocByRisks(d) ==
    \E e \in SeqsUpTo(RiskLevels \X LocationValues, MaxRisks) :
        d = SnowData([i \in DOMAIN e |-> AvalancheRiskPerLocation(e[i][1], e[i][2])],
                     DefaultFresh, DefaultTotal)

\* The ways to cut a list of n records into k consecutive groups, empty ones
\* included: c[i] is the position of the last record of group i.
Cuts(k, n) ==
    IF k = 0 THEN (IF n = 0 THEN {<<>>} ELSE {})
    ELSE {c \in [1..k -> 0..n] : c[k] = n /\ \A i \in 1..(k - 1) : c[i] <= c[i + 1]}

\* The position before the first record of group i
GroupStart(c, i) == IF i = 1 THEN 0 ELSE c[i - 1]

\* Documents that differ in the altitudes of their total-snow records, in any
\* order and with repetitions, spread over the expositions in any way; every
\* record carries a value of its own.
TotalRecord(alt, position) == SnowDepth(alt, "2024-01-10", 10 * position)

\* The records of exposition i: group i of the flat list of altitudes a
TotalGroup(a, c, i) ==
    [j \in 1..(c[i] - GroupStart(c, i)) |->
        TotalRecord(a[GroupStart(c, i) + j], GroupStart(c, i) + j)]

SnowDocByAltitudes(d) ==
    \E a \in SeqsUpTo(Altitudes, MaxTotalRecords), k \in 0..MaxExpo :
        \E c \in Cuts(k, Len(a)) :
            d = SnowData(DefaultRisks, DefaultFresh,
                    [i \in 1..k |->
                        TotalSnowPerExposition(ExpoName(i), 1800,
                            TotalGroup(a, c, i))])

\* Documents that differ in the names and snow limits of their expositions.
SnowDocByExpositions(d) ==
    \E e \in SeqsUpTo(Expositions \X SnowLimits, MaxExpo) :
        d = SnowData(DefaultRisks, DefaultFresh,
                [i \in DOMAIN e |->
                    TotalSnowPerExposition(e[i][1], e[i][2],
                        <<SnowDepth(1500, "2024-01-10", 10 * i)>>)])

\* The (date, altitude) pairs of the fresh-snow records
FreshKinds == {<<"2024-01-10", 1500>>, <<"2024-01-10", 2000>>, <<"2024-01-11", 1500>>}

FreshRecord(kind, position) == SnowDepth(kind[2], kind[1], 10 * position)

\* The records of exposition i: group i of the flat list of kinds f
FreshGroup(f, c, i) ==
    [j \in 1..(c[i] - GroupStart(c, i)) |->
        FreshRecord(f[GroupStart(c, i) + j], GroupStart(c, i) + j)]

\* Documents that differ in their fresh-snow records: any dates and altitudes,
\* repeated or not, spread in any way over expositions whose names may repeat.
SnowDocByFresh(d) ==
    \E f \in SeqsUpTo(FreshKinds, MaxFreshRecords), k \in 0..MaxExpo :
        \E c \in Cuts(k, Len(f)), names \in [1..k -> Expositions] :
            d = SnowData(DefaultRisks,
                    [i \in 1..k |->
                        FreshSnowPerExposition(names[i],
                            FreshGroup(f, c, i))],
                    DefaultTotal)

SnowBase ==
    SnowData(DefaultRisks,
        <<FreshSnowPerExposition("N", <<SnowDepth(1500, "2024-01-10", 5)>>),
          FreshSnowPerExposition("S", <<SnowDepth(1500, "2024-01-10", 8)>>)>>,
        <<TotalSnowPerExposition("N", 1800, <<SnowDepth(1500, "2024-01-10", 40)>>),
          TotalSnowPerExposition("S", 2200, <<SnowDepth(2000, "2024-01-10", 60)>>)>>)

\* The document d with its value at the given path replaced by v
RECURSIVE ReplaceAt(_, _, _)
ReplaceAt(d, path, v) ==
    IF path = <<>> THEN v
    ELSE [d EXCEPT ![Head(path)] = ReplaceAt(d[Head(path)], Tail(path), v)]

\* The value at the given path of document d
RECURSIVE ValueAt(_, _)
ValueAt(d, path) == IF path = <<>> THEN d ELSE ValueAt(d[Head(path)], Tail(path))

\* The document d without key k of the dict at the given path
WithoutAt(d, path, k) == ReplaceAt(d, path, Without(ValueAt(d, path), k))

\* Documents lacking one key, at any level of SnowBase.
MalformedSnowDocs ==
    {WithoutAt(SnowBase, <<>>, "properties")}
    \cup {WithoutAt(SnowBase, <<"properties">>, k) : k \in DOMAIN SnowBase.properties}
    \cup {WithoutAt(SnowBase, <<"properties", "massif_avalanche_risk">>, k) :
            k \in {"avalanche_risk_max", "avalanche_risk_per_location"}}
    \cup {WithoutAt(SnowBase, <<"properties", "massif_avalanche_risk",
                                "avalanche_risk_per_location", i>>, k) :
            i \in 1..2, k \in {"avalanche_risk", "location"}}
    \cup {WithoutAt(SnowBase, <<"properties", "massif_avalanche_risk",
                                "avalanche_risk_per_location", i, "location">>, "value") :
            i \in 1..2}
    \cup {WithoutAt(SnowBase, <<"properties", "total_snow_per_exposition", i>>, k) :
            i \in 1..2, k \in {"exposition", "snow_limit", "total_snow_depth"}}
    \cup {WithoutAt(SnowBase, <<"properties", "total_snow_per_exposition", i,
                                "total_snow_depth", 1>>, k) :
            i \in 1..2, k \in {"altitude", "value"}}
    \cup {WithoutAt(SnowBase, <<"properties", "fresh_snow_per_exposition", i>>, k) :
            i \in 1..2, k \in {"exposition", "fresh_snow_depth"}}
    \cup {WithoutAt(SnowBase, <<"properties", "fresh_snow_per_exposition", i,
                                "fresh_snow_depth", 1>>, k) :
            i \in 1..2, k \in {"date", "altitude", "value"}}
    \cup {NoneDoc}

SnowDoc(d) ==
    \/ SnowDocByRisks(d)
    \/ SnowDocByAltitudes(d)
    \/ SnowDocByExpositions(d)
    \/ SnowDocByFresh(d)
    \/ d \in MalformedSnowDocs

----------------------------------------------------------------------------
(* The state machine *)

Init ==
    /\ \/ cls = "Rain" /\ RainDoc(arg)
       \/ cls = "Snow" /\ SnowDoc(arg)
    /\ raw_data = Unset
    /\ pc = "new"
    /\ call = [name |-> "", args |-> <<>>]
    /\ result = None

\* A call on a constructed wrapper that only reads: it leaves every attribute
\* as it is and yields outcome r.
Reads(name, args, r) ==
    /\ pc = "ready"
    /\ call' = [name |-> name, args |-> args]
    /\ result' = r
    /\ UNCHANGED <<cls, arg, raw_data, pc>>

\* Variant: the constructor reads the forecasts of the document, and fails on
\* a document without them.
Construct_Rain_validating ==
    /\ pc = "new" /\ cls = "Rain"
    /\ call' = [name |-> "__init__", args |-> <<>>]
    /\ IF Failed(Rain_forecasts(arg))
       THEN result' = Rain_forecasts(arg) /\ UNCHANGED <<raw_data, pc>>
       ELSE result' = None /\ raw_data' = arg /\ pc' = "ready"
    /\ UNCHANGED <<cls, arg>>

\* Rain.__init__: self.raw_data = raw_data, nothing else.
Construct_Rain ==
    /\ pc = "new" /\ cls = "Rain"
    /\ raw_data' = arg
    /\ pc' = "ready"
    /\ call' = [name |-> "__init__", args |-> <<>>]
    /\ result' = None
    /\ UNCHANGED <<cls, arg>>

Call_Rain_update_time == cls = "Rain" /\ Reads("update_time", <<>>, Rain_update_time(raw_data))

Call_Rain_geometry == cls = "Rain" /\ Reads("geometry", <<>>, Rain_geometry(raw_data))

Call_Rain_altitude == cls = "Rain" /\ Reads("altitude", <<>>, Rain_altitude(raw_data))

Call_Rain_location_name ==
    cls = "Rain" /\ Reads("location_name", <<>>, Rain_location_name(raw_data))

Call_Rain_country == cls = "Rain" /\ Reads("country", <<>>, Rain_country(raw_data))

Call_Rain_french_department ==
    cls = "Rain" /\ Reads("french_department", <<>>, Rain_french_department(raw_data))

Call_Rain_rain_product_available ==
    cls = "Rain"
    /\ Reads("rain_product_available", <<>>, Rain_rain_product_available(raw_data))

Call_Rain_timezone == cls = "Rain" /\ Reads("timezone", <<>>, Rain_timezone(raw_data))

Call_Rain_confidence == cls = "Rain" /\ Reads("confidence", <<>>, Rain_confidence(raw_data))

Call_Rain_forecasts == cls = "Rain" /\ Reads("forecasts", <<>>, Rain_forecasts(raw_data))

Call_Rain_timestamp_to_locale_time ==
    /\ cls = "Rain"
    /\ \E timestamp \in Times :
        Reads("timestamp_to_locale_time", <<timestamp>>,
              Rain_timestamp_to_locale_time(raw_data, timestamp))

\* Variant: the scan consumes the document's forecasts (forecasts.pop(0)).
Call_Rain_next_rain_date_locale_pops ==
    /\ cls = "Rain" /\ pc = "ready"
    /\ call' = [name |-> "next_rain_date_locale", args |-> <<>>]
    /\ result' = Rain_next_rain_date_locale(raw_data)
    /\ raw_data' =
        IF ~Failed(Rain_forecasts(raw_data)) /\ Rain_forecasts(raw_data).value # <<>>
        THEN [raw_data EXCEPT !.properties.forecast = Tail(@)]
        ELSE raw_data
    /\ UNCHANGED <<cls, arg, pc>>

Call_Rain_next_rain_date_locale ==
    cls = "Rain"
    /\ Reads("next_rain_date_locale", <<>>, Rain_next_rain_date_locale(raw_data))

\* Snow.__init__: self.raw_data = raw_data, nothing else.
Construct_Snow ==
    /\ pc = "new" /\ cls = "Snow"
    /\ raw_data' = arg
    /\ pc' = "ready"
    /\ call' = [name |-> "__init__", args |-> <<>>]
    /\ result' = None
    /\ UNCHANGED <<cls, arg>>

Call_Snow_get_massif_name ==
    cls = "Snow" /\ Reads("get_massif_name", <<>>, Snow_get_massif_name(raw_data))

Call_Snow_get_max_avalanche_risk ==
    cls = "Snow"
    /\ Reads("get_max_avalanche_risk", <<>>, Snow_get_max_avalanche_risk(raw_data))

Call_Snow_get_snow_depth_at_altitude ==
    /\ cls = "Snow"
    /\ \E alt \in Altitudes :
        Reads("get_snow_depth_at_altitude", <<alt>>,
              Snow_get_snow_depth_at_altitude(raw_data, alt))

Call_Snow_get_available_altitudes ==
    cls = "Snow"
    /\ Reads("get_available_altitudes", <<>>, Snow_get_available_altitudes(raw_data))

Call_Snow_get_avalanche_risk_by_location_value ==
    /\ cls = "Snow"
    /\ \E location_value \in LocationValues :
        Reads("get_avalanche_risk_by_location_value", <<location_value>>,
              Snow_get_avalanche_risk_by_location_value(raw_data, location_value))

Call_Snow_get_snow_depths ==
    cls = "Snow" /\ Reads("get_snow_depths", <<>>, Snow_get_snow_depths(raw_data))

Call_Snow_get_snow_limits ==
    cls = "Snow" /\ Reads("get_snow_limits", <<>>, Snow_get_snow_limits(raw_data))

Call_Snow_get_avalanche_risks ==
    cls = "Snow" /\ Reads("get_avalanche_risks", <<>>, Snow_get_avalanche_risks(raw_data))

Call_Snow_get_fresh_snow ==
    cls = "Snow" /\ Reads("get_fresh_snow", <<>>, Snow_get_fresh_snow(raw_data))

Next ==
    \/ Construct_Rain
    \/ Call_Rain_update_time
    \/ Call_Rain_geometry
    \/ Call_Rain_altitude
    \/ Call_Rain_location_name
    \/ Call_Rain_country
    \/ Call_Rain_french_department
    \/ Call_Rain_rain_product_available
    \/ Call_Rain_timezone
    \/ Call_Rain_confidence
    \/ Call_Rain_forecasts
    \/ Call_Rain_timestamp_to_locale_time
    \/ Call_Rain_next_rain_date_locale
    \/ Construct_Snow
    \/ Call_Snow_get_massif_name
    \/ Call_Snow_get_max_avalanche_risk
    \/ Call_Snow_get_snow_depth_at_altitude
    \/ Call_Snow_get_available_altitudes
    \/ Call_Snow_get_avalanche_risk_by_location_value
    \/ Call_Snow_get_snow_depths
    \/ Call_Snow_get_snow_limits
    \/ Call_Snow_get_avalanche_risks
    \/ Call_Snow_get_fresh_snow

Spec == Init /\ [][Next]_vars

----------------------------------------------------------------------------
(* What the documents are expected to hold *)

\* A path names a key of the document; "*" stands for every element of a list.
RainPaths ==
    {<<"update_time">>, <<"geometry">>, <<"properties">>}
    \cup {<<"properties", k>> :
            k \in {"altitude", "name", "country", "french_department",
                   "rain_product_available", "timezone", "confidence", "forecast"}}
    \cup {<<"properties", "forecast", "*", k>> : k \in {"time", "rain_intensity"}}

\* The dict reached by the path but for its last key lacks that key,
\* somewhere in document d.
RECURSIVE Lacks(_, _)
Lacks(d, path) ==
    IF Len(path) = 1 THEN Head(path) \notin DOMAIN d
    ELSE IF Head(path) = "*" THEN \E i \in 1..Len(d) : Lacks(d[i], Tail(path))
    ELSE Head(path) \in DOMAIN d /\ Lacks(d[Head(path)], Tail(path))

\* Document d is a dict that holds every key of the paths.
Holds(d, paths) == d # NoneDoc /\ \A p \in paths : ~Lacks(d, p)

Called(name) == pc = "ready" /\ call.name = name

----------------------------------------------------------------------------
(* Rain.next_rain_date_locale *)

Chronological(fc) == \A i, j \in 1..Len(fc) : i < j => fc[i].time <= fc[j].time

Rainy(fc) == {i \in 1..Len(fc) : fc[i].rain_intensity > 1}

FirstRainy(fc) == CHOOSE i \in Rainy(fc) : \A j \in Rainy(fc) : i <= j

\* The wrapped document is a rain document of the expected shape in a known zone.
RainDocumentWrapped ==
    /\ cls = "Rain" /\ pc = "ready"
    /\ Holds(raw_data, RainPaths)
    /\ raw_data.properties.timezone \in KnownTimezones

\* C1: on a document with a non-empty, chronologically ordered forecast
\* sequence holding an entry of rain_intensity > 1, next_rain_date_locale()
\* returns the time of the first such entry in sequence order, localized in
\* the document's timezone (never a later entry's time, never that of an entry
\* of intensity 1); on the document of test_rain_expected that is
\* 2023-12-14 16:55:00+01:00.
C1_FirstRainLocalized ==
    (/\ Called("next_rain_date_locale")
     /\ RainDocumentWrapped
     /\ Chronological(raw_data.properties.forecast)
     /\ Rainy(raw_data.properties.forecast) # {})
    => LET fc == raw_data.properties.forecast
           first == fc[FirstRainy(fc)]
       IN  /\ result = Return(LocalDateTime(first.time, raw_data.properties.timezone))
           /\ first.rain_intensity # 1
           /\ raw_data = TestRainExpected =>
                result.value = [year |-> 2023, month |-> 12, day |-> 14,
                                hour |-> 16, minute |-> 55, second |-> 0,
                                utcoffset |-> 3600, tzinfo |-> "Europe/Paris"]

\* A call on a document whose first entry is dry and that has two rainy
\* entries at different times: the earlier one was returned.
C1_Witness ==
    /\ Called("next_rain_date_locale")
    /\ RainDocumentWrapped
    /\ LET fc == raw_data.properties.forecast
       IN  /\ Chronological(fc)
           /\ Len(fc) = 3
           /\ fc[1].rain_intensity = 1
           /\ fc[2].rain_intensity > 1 /\ fc[3].rain_intensity > 1
           /\ fc[2].time < fc[3].time
           /\ result = Return(LocalDateTime(fc[2].time, "Europe/Paris"))

\* C2: next_rain_date_locale() returns None whenever no forecast entry has
\* rain_intensity > 1: on every document whose entries all have intensity 1
\* and on a document whose forecast sequence is empty.
C2_NoRainIsNone ==
    (/\ Called("next_rain_date_locale")
     /\ cls = "Rain"
     /\ Holds(raw_data, {<<"properties">>, <<"properties", "forecast">>})
     /\ \/ raw_data.properties.forecast = <<>>
        \/ /\ RainDocumentWrapped
           /\ \A i \in 1..Len(raw_data.properties.forecast) :
                raw_data.properties.forecast[i].rain_intensity = 1)
    => result = None

\* A call on the all-dry document of test_no_rain_expected returned None.
C2_Witness ==
    /\ Called("next_rain_date_locale")
    /\ raw_data = TestNoRainExpected
    /\ result = None

----------------------------------------------------------------------------
(* Snow: the total-snow queries *)

TotalPaths ==
    {<<"properties">>, <<"properties", "total_snow_per_exposition">>}
    \cup {<<"properties", "total_snow_per_exposition", "*", k>> :
            k \in {"exposition", "snow_limit", "total_snow_depth"}}
    \cup {<<"properties", "total_snow_per_exposition", "*", "total_snow_depth", "*", k>> :
            k \in {"altitude", "value"}}

SnowTotalWrapped == cls = "Snow" /\ pc = "ready" /\ Holds(raw_data, TotalPaths)

Total == raw_data.properties.total_snow_per_exposition

\* The positions <<exposition, record>> of the total-snow records
TotalPositions ==
    UNION {{<<i, j>> : j \in 1..Len(Total[i].total_snow_depth)} : i \in 1..Len(Total)}

TotalRecordAt(p) == Total[p[1]].total_snow_depth[p[2]]

\* Document order: expositions first, records within an exposition next.
Precedes(p, q) == p[1] < q[1] \/ (p[1] = q[1] /\ p[2] <= q[2])

\* C3: for any snow document, repeated or unordered altitude records included,
\* get_available_altitudes() returns a strictly ascending sequence (so
\* without duplicates) whose elements are exactly the altitudes of the
\* total_snow_depth records of all expositions.
C3_AltitudesAscendingUnion ==
    (Called("get_available_altitudes") /\ SnowTotalWrapped)
    => /\ result.kind = "return"
       /\ \A i \in 1..(Len(result.value) - 1) : result.value[i] < result.value[i + 1]
       /\ {result.value[i] : i \in 1..Len(result.value)}
            = {TotalRecordAt(p).altitude : p \in TotalPositions}

\* A call on a document of two expositions whose altitudes come unordered and
\* repeated, within an exposition and across them.
C3_Witness ==
    /\ Called("get_available_altitudes") /\ SnowTotalWrapped
    /\ Len(Total) = 2
    /\ Len(Total[1].total_snow_depth) = 2 /\ Len(Total[2].total_snow_depth) = 2
    /\ TotalRecordAt(<<1, 1>>).altitude = 2500
    /\ TotalRecordAt(<<1, 2>>).altitude = 1500
    /\ TotalRecordAt(<<2, 1>>).altitude = 2500
    /\ TotalRecordAt(<<2, 2>>).altitude = 2000
    /\ result = Return(<<1500, 2000, 2500>>)

\* C4: get_snow_depth_at_altitude(a) returns the value of the first
\* total-snow record of altitude a, expositions in document order and records
\* in order within each (the first exposition holding a wins), and None for
\* an altitude that no exposition holds.
C4_FirstDepthAtAltitude ==
    (Called("get_snow_depth_at_altitude") /\ SnowTotalWrapped)
    => LET matches == {p \in TotalPositions : TotalRecordAt(p).altitude = call.args[1]}
           first == CHOOSE p \in matches : \A q \in matches : Precedes(p, q)
       IN  IF matches = {} THEN result = None
           ELSE result = Return(TotalRecordAt(first).value)

\* A call for an altitude that two expositions hold, the first one twice,
\* each record with another value: the first record's value was returned.
C4_Witness ==
    /\ Called("get_snow_depth_at_altitude") /\ SnowTotalWrapped
    /\ call.args = <<2000>>
    /\ Len(Total) = 2
    /\ Len(Total[1].total_snow_depth) = 3 /\ Len(Total[2].total_snow_depth) = 1
    /\ TotalRecordAt(<<1, 1>>).altitude = 1500
    /\ TotalRecordAt(<<1, 2>>).altitude = 2000
    /\ TotalRecordAt(<<1, 3>>).altitude = 2000
    /\ TotalRecordAt(<<2, 1>>).altitude = 2000
    /\ Cardinality({TotalRecordAt(p).value : p \in TotalPositions}) = 4
    /\ result = Return(TotalRecordAt(<<1, 2>>).value)

\* An altitude that no exposition holds gives None.
C4_WitnessAbsent ==
    /\ Called("get_snow_depth_at_altitude") /\ SnowTotalWrapped
    /\ TotalPositions # {}
    /\ \A p \in TotalPositions : TotalRecordAt(p).altitude # call.args[1]
    /\ result = None

----------------------------------------------------------------------------
(* Snow.get_fresh_snow *)

FreshPaths ==
    {<<"properties">>, <<"properties", "fresh_snow_per_exposition">>}
    \cup {<<"properties", "fresh_snow_per_exposition", "*", k>> :
            k \in {"exposition", "fresh_snow_depth"}}
    \cup {<<"properties", "fresh_snow_per_exposition", "*", "fresh_snow_depth", "*", k>> :
            k \in {"date", "altitude", "value"}}

SnowFreshWrapped == cls = "Snow" /\ pc = "ready" /\ Holds(raw_data, FreshPaths)

Fresh == raw_data.properties.fresh_snow_per_exposition

FreshPositions ==
    UNION {{<<i, j>> : j \in 1..Len(Fresh[i].fresh_snow_depth)} : i \in 1..Len(Fresh)}

\* The key under which the record at position p is filed: its date, and its
\* (altitude, exposition) pair.
FreshKey(p) ==
    LET r == Fresh[p[1]].fresh_snow_depth[p[2]]
    IN  <<r.date, <<r.altitude, Fresh[p[1]].exposition>>>>

\* The leaves of a two-level mapping, each named by its two keys
Leaves(m) == UNION {{<<d, k>> : k \in DOMAIN m[d]} : d \in DOMAIN m}

\* C5, as stated: the number of leaf values of get_fresh_snow() equals the
\* number of fresh_snow_depth records of all fresh_snow_per_exposition entries.
C5_LeavesEqualRecords ==
    (Called("get_fresh_snow") /\ SnowFreshWrapped)
    => /\ result.kind = "return"
       /\ Cardinality(Leaves(result.value)) = Cardinality(FreshPositions)

\* C5, amended: the leaves of get_fresh_snow() are exactly the distinct
\* (date, altitude, exposition) keys of the fresh_snow_depth records, so their
\* number equals the number of records exactly when no two records share
\* their date, altitude and exposition name, and is smaller otherwise.
C5_LeavesAreDistinctKeys ==
    (Called("get_fresh_snow") /\ SnowFreshWrapped)
    => /\ result.kind = "return"
       /\ Leaves(result.value) = {FreshKey(p) : p \in FreshPositions}
       /\ Cardinality(Leaves(result.value)) <= Cardinality(FreshPositions)
       /\ (Cardinality(Leaves(result.value)) = Cardinality(FreshPositions))
            <=> (\A p, q \in FreshPositions : FreshKey(p) = FreshKey(q) => p = q)

\* A call on a document with three records, two of them of the same date and
\* altitude in expositions of the same name: two leaves.
C5_Witness ==
    /\ Called("get_fresh_snow") /\ SnowFreshWrapped
    /\ Cardinality(FreshPositions) = 3
    /\ Len(Fresh) = 2
    /\ {<<1, 1>>, <<2, 1>>} \subseteq FreshPositions
    /\ FreshKey(<<1, 1>>) = FreshKey(<<2, 1>>)
    /\ result.kind = "return"
    /\ Cardinality(Leaves(result.value)) = 2

----------------------------------------------------------------------------
(* Snow: the avalanche risks *)

RiskPaths ==
    {<<"properties">>, <<"properties", "massif_avalanche_risk">>,
     <<"properties", "massif_avalanche_risk", "avalanche_risk_per_location">>,
     <<"properties", "massif_avalanche_risk", "avalanche_risk_per_location", "*",
       "avalanche_risk">>,
     <<"properties", "massif_avalanche_risk", "avalanche_risk_per_location", "*",
       "location">>,
     <<"properties", "massif_avalanche_risk", "avalanche_risk_per_location", "*",
       "location", "value">>}

SnowRisksWrapped == cls = "Snow" /\ pc = "ready" /\ Holds(raw_data, RiskPaths)

Risks == raw_data.properties.massif_avalanche_risk.avalanche_risk_per_location

\* The positions of the entries whose location.value is v
RisksAt(v) == {i \in 1..Len(Risks) : Risks[i].location.value = v}

FirstOf(S) == CHOOSE i \in S : \A j \in S : i <= j

LastOf(S) == CHOOSE i \in S : \A j \in S : i >= j

\* C6: the mapping of get_avalanche_risks() has as many keys as there are
\* distinct location.value strings in avalanche_risk_per_location, and its key
\* set is exactly those strings.
C6_RiskKeysAreLocationValues ==
    (Called("get_avalanche_risks") /\ SnowRisksWrapped)
    => /\ result.kind = "return"
       /\ DOMAIN result.value = {Risks[i].location.value : i \in 1..Len(Risks)}
       /\ Cardinality(DOMAIN result.value)
            = Cardinality({Risks[i].location.value : i \in 1..Len(Risks)})

\* A call on a document of three entries at two location values: two keys.
C6_Witness ==
    /\ Called("get_avalanche_risks") /\ SnowRisksWrapped
    /\ Len(Risks) = 3
    /\ Cardinality({Risks[i].location.value : i \in 1..Len(Risks)}) = 2
    /\ result.kind = "return"
    /\ Cardinality(DOMAIN result.value) = 2

\* C7: get_avalanche_risk_by_location_value(v) returns the avalanche_risk of
\* the first entry, in document order, whose location.value equals v, also
\* when later entries carry the same value, and None when no entry does.
C7_FirstRiskAtLocation ==
    (Called("get_avalanche_risk_by_location_value") /\ SnowRisksWrapped)
    => LET matches == RisksAt(call.args[1])
       IN  IF matches = {} THEN result = None
           ELSE result = Return(Risks[FirstOf(matches)].avalanche_risk)

\* A call for a value that the first and the last of three entries carry with
\* different risks: the first entry's risk was returned.
C7_Witness ==
    /\ Called("get_avalanche_risk_by_location_value") /\ SnowRisksWrapped
    /\ Len(Risks) = 3
    /\ RisksAt(call.args[1]) = {1, 3}
    /\ Risks[1].avalanche_risk # Risks[3].avalanche_risk
    /\ result = Return(Risks[1].avalanche_risk)

\* C10, as stated: for every location.value v of the document the mapping of
\* get_avalanche_risks() holds the avalanche_risk of the last entry carrying
\* v, and that differs from get_avalanche_risk_by_location_value(v) when the
\* entries carrying v have different risks.
C10_LastWinsDiffersOnDuplicates ==
    (Called("get_avalanche_risks") /\ SnowRisksWrapped)
    => /\ result.kind = "return"
       /\ \A i \in 1..Len(Risks) :
            LET v == Risks[i].location.value
            IN  /\ result.value[v] = Risks[LastOf(RisksAt(v))].avalanche_risk
                /\ (\E j, k \in RisksAt(v) :
                        Risks[j].avalanche_risk # Risks[k].avalanche_risk)
                   => Return(result.value[v])
                        # Snow_get_avalanche_risk_by_location_value(raw_data, v)

\* C10, amended: the mapping holds, for every v, the avalanche_risk of the
\* last entry carrying v; that differs from
\* get_avalanche_risk_by_location_value(v) exactly when the first and the
\* last entry carrying v have different risks.
C10_LastWins ==
    (Called("get_avalanche_risks") /\ SnowRisksWrapped)
    => /\ result.kind = "return"
       /\ \A i \in 1..Len(Risks) :
            LET v == Risks[i].location.value
            IN  /\ result.value[v] = Risks[LastOf(RisksAt(v))].avalanche_risk
                /\ (Return(result.value[v])
                        # Snow_get_avalanche_risk_by_location_value(raw_data, v))
                   <=> (Risks[FirstOf(RisksAt(v))].avalanche_risk
                            # Risks[LastOf(RisksAt(v))].avalanche_risk)

\* A call on a document where two entries carry the same value with different
\* risks: the mapping holds the later one, the lookup gives the earlier one.
C10_Witness ==
    /\ Called("get_avalanche_risks") /\ SnowRisksWrapped
    /\ Len(Risks) = 2
    /\ Risks[1].location.value = Risks[2].location.value
    /\ Risks[1].avalanche_risk # Risks[2].avalanche_risk
    /\ result = Return([v \in {Risks[2].location.value} |-> Risks[2].avalanche_risk])
    /\ Snow_get_avalanche_risk_by_location_value(raw_data, Risks[1].location.value)
        = Return(Risks[1].avalanche_risk)

----------------------------------------------------------------------------
(* The wrapped document across calls *)

\* The outcome of call c on a wrapper of document d
Outcome(c, d) ==
    CASE c.name = "update_time" -> Rain_update_time(d)
      [] c.name = "geometry" -> Rain_geometry(d)
      [] c.name = "altitude" -> Rain_altitude(d)
      [] c.name = "location_name" -> Rain_location_name(d)
      [] c.name = "country" -> Rain_country(d)
      [] c.name = "french_department" -> Rain_french_department(d)
      [] c.name = "rain_product_available" -> Rain_rain_product_available(d)
      [] c.name = "timezone" -> Rain_timezone(d)
      [] c.name = "confidence" -> Rain_confidence(d)
      [] c.name = "forecasts" -> Rain_forecasts(d)
      [] c.name = "timestamp_to_locale_time" ->
            Rain_timestamp_to_locale_time(d, c.args[1])
      [] c.name = "next_rain_date_locale" -> Rain_next_rain_date_locale(d)
      [] c.name = "get_massif_name" -> Snow_get_massif_name(d)
      [] c.name = "get_max_avalanche_risk" -> Snow_get_max_avalanche_risk(d)
      [] c.name = "get_snow_depth_at_altitude" ->
            Snow_get_snow_depth_at_altitude(d, c.args[1])
      [] c.name = "get_available_altitudes" -> Snow_get_available_altitudes(d)
      [] c.name = "get_avalanche_risk_by_location_value" ->
            Snow_get_avalanche_risk_by_location_value(d, c.args[1])
      [] c.name = "get_snow_depths" -> Snow_get_snow_depths(d)
      [] c.name = "get_snow_limits" -> Snow_get_snow_limits(d)
      [] c.name = "get_avalanche_risks" -> Snow_get_avalanche_risks(d)
      [] c.name = "get_fresh_snow" -> Snow_get_fresh_snow(d)

\* C8: after any sequence of accessor and query calls on a Rain or Snow
\* wrapper, the wrapped document is the document given at construction, and
\* the last call's outcome is the outcome the same call has on a wrapper just
\* constructed from that document.
C8_DocumentUnchanged ==
    pc = "ready"
    => /\ raw_data = arg
       /\ call.name # "__init__" => result = Outcome(call, arg)

\* A query made on the document of test_rain_expected, which it left as it was.
C8_Witness ==
    /\ Called("next_rain_date_locale")
    /\ arg = TestRainExpected
    /\ raw_data = arg
    /\ result.kind = "return"

----------------------------------------------------------------------------
(* Documents that lack a key *)

SnowPaths ==
    TotalPaths \cup FreshPaths \cup RiskPaths
    \cup {<<"properties", "massif_name">>,
          <<"properties", "massif_avalanche_risk", "avalanche_risk_max">>}

\* The paths of P and the paths that lead to them
PrefixClosed(P) == UNION {{SubSeq(p, 1, n) : n \in 1..Len(p)} : p \in P}

IsKey(p) == p[Len(p)] # "*"

Total_(k) == <<"properties", "total_snow_per_exposition", "*", k>>

TotalDepth_(k) ==
    <<"properties", "total_snow_per_exposition", "*", "total_snow_depth", "*", k>>

\* The keys that a call by that name reads on its way, in a document that
\* holds them all.
ReadPaths(name) ==
    LET leaves ==
        CASE name = "update_time" -> {<<"update_time">>, <<"properties", "timezone">>}
          [] name = "geometry" -> {<<"geometry">>}
          [] name = "altitude" -> {<<"properties", "altitude">>}
          [] name = "location_name" -> {<<"properties", "name">>}
          [] name = "country" -> {<<"properties", "country">>}
          [] name = "french_department" -> {<<"properties", "french_department">>}
          [] name = "rain_product_available" ->
                {<<"properties", "rain_product_available">>}
          [] name = "timezone" -> {<<"properties", "timezone">>}
          [] name = "confidence" -> {<<"properties", "confidence">>}
          [] name = "forecasts" -> {<<"properties", "forecast">>}
          [] name = "timestamp_to_locale_time" -> {<<"properties", "timezone">>}
          [] name = "next_rain_date_locale" ->
                {<<"properties", "timezone">>,
                 <<"properties", "forecast", "*", "time">>,
                 <<"properties", "forecast", "*", "rain_intensity">>}
          [] name = "get_massif_name" -> {<<"properties", "massif_name">>}
          [] name = "get_max_avalanche_risk" ->
                {<<"properties", "massif_avalanche_risk", "avalanche_risk_max">>}
          [] name = "get_snow_depth_at_altitude" ->
                {TotalDepth_("altitude"), TotalDepth_("value")}
          [] name = "get_available_altitudes" -> {TotalDepth_("altitude")}
          [] name \in {"get_avalanche_risk_by_location_value", "get_avalanche_risks"} ->
                RiskPaths
          [] name = "get_snow_depths" ->
                {Total_("exposition"), TotalDepth_("altitude"), TotalDepth_("value")}
          [] name = "get_snow_limits" -> {Total_("exposition"), Total_("snow_limit")}
          [] name = "get_fresh_snow" -> FreshPaths
    IN  {p \in PrefixClosed(leaves) : IsKey(p)}

Localizing == {"update_time", "timestamp_to_locale_time", "next_rain_date_locale"}

\* C9: constructing a Rain or Snow wrapper never fails and validates nothing,
\* whatever the document; a call fails with a missing-key failure only when
\* the document lacks a key that the call reads, and a call that reads none of
\* the lacking keys succeeds on the same wrapper (a localizing call on a
\* document of unknown timezone fails for that reason alone).
C9_MissingKeyFailsAtAccess ==
    /\ pc = "new" => ENABLED (Construct_Rain \/ Construct_Snow)
    /\ call.name = "__init__" => pc = "ready" /\ result = None /\ raw_data = arg
    /\ (pc = "ready" /\ call.name # "__init__") =>
        LET lacking == {p \in ReadPaths(call.name) : Lacks(raw_data, p)}
        IN  /\ (Failed(result) /\ result.exc = "KeyError")
               => \E p \in lacking : p[Len(p)] = result.arg
            /\ (raw_data # NoneDoc /\ lacking = {} /\ Failed(result))
               => /\ result.exc = "UnknownTimeZoneError"
                  /\ call.name \in Localizing
                  /\ raw_data.properties.timezone \notin KnownTimezones

\* A wrapper was constructed from a rain document without its timezone; the
\* query that reads the timezone then failed with the missing key.
C9_Witness ==
    /\ Called("next_rain_date_locale")
    /\ raw_data = arg
    /\ ~Lacks(raw_data, <<"properties", "forecast">>)
    /\ Lacks(raw_data, <<"properties", "timezone">>)
    /\ result = Raise("KeyError", "timezone")

\* On the same kind of document an accessor that does not read the timezone
\* succeeded.
C9_WitnessOtherAccessor ==
    /\ Called("altitude")
    /\ Lacks(raw_data, <<"properties", "timezone">>)
    /\ result = Return(76)

----------------------------------------------------------------------------
(* Snow.get_snow_limits *)

\* The positions of the expositions named e
ExpositionsNamed(e) == {i \in 1..Len(Total) : Total[i].exposition = e}

\* C11: get_snow_limits() returns a mapping whose keys are exactly the
\* distinct exposition names of total_snow_per_exposition, each name mapped to
\* the snow_limit of the last exposition entry, in document order, of that name.
C11_SnowLimitsLastWins ==
    (Called("get_snow_limits") /\ SnowTotalWrapped)
    => /\ result.kind = "return"
       /\ DOMAIN result.value = {Total[i].exposition : i \in 1..Len(Total)}
       /\ \A i \in 1..Len(Total) :
            result.value[Total[i].exposition]
                = Total[LastOf(ExpositionsNamed(Total[i].exposition))].snow_limit

\* A call on a document whose two expositions have the same name and
\* different snow limits: one key, with the second entry's limit.
C11_Witness ==
    /\ Called("get_snow_limits") /\ SnowTotalWrapped
    /\ Len(Total) = 2
    /\ Total[1].exposition = Total[2].exposition
    /\ Total[1].snow_limit # Total[2].snow_limit
    /\ result = Return([e \in {Total[2].exposition} |-> Total[2].snow_limit])

----------------------------------------------------------------------------
(* Rain.next_rain_date_locale in an unknown zone *)

\* The wrapped document is a rain document of the expected shape whose
\* timezone is not a zone identifier.
RainDocumentInUnknownZone ==
    /\ cls = "Rain" /\ pc = "ready"
    /\ Holds(raw_data, RainPaths)
    /\ raw_data.properties.timezone \notin KnownTimezones

\* C12: next_rain_date_locale() localizes each scanned entry's time before it
\* tests the entry's rain_intensity: on a document whose timezone is not a
\* zone identifier it fails with the unknown-timezone error whenever the
\* forecast sequence is non-empty, even if every entry has rain_intensity 1,
\* and it returns None without failing only when the sequence is empty.
C12_UnknownZoneFailsUnlessEmpty ==
    (Called("next_rain_date_locale") /\ RainDocumentInUnknownZone)
    => LET fc == raw_data.properties.forecast
       IN  /\ fc # <<>> =>
                result = Raise("UnknownTimeZoneError", raw_data.properties.timezone)
           /\ fc = <<>> => result = None
           /\ ~Failed(result) => (result = None /\ fc = <<>>)

\* A call on a document in an unknown zone whose entries are all dry failed
\* with the unknown-timezone error.
C12_Witness ==
    /\ Called("next_rain_date_locale") /\ RainDocumentInUnknownZone
    /\ LET fc == raw_data.properties.forecast
       IN  /\ Len(fc) >= 2
           /\ \A i \in 1..Len(fc) : fc[i].rain_intensity = 1
    /\ result = Raise("UnknownTimeZoneError", "Mars/Olympus")

\* A call on a document in an unknown zone with no forecast returned None.
C12_WitnessEmpty ==
    /\ Called("next_rain_date_locale") /\ RainDocumentInUnknownZone
    /\ raw_data.properties.forecast = <<>>
    /\ result = None

====
